---- MODULE Spec2Model ----
(***************************************************************************)
(* Model of the turtle-soup deduction game: HostAgent (oracle),            *)
(* PlayerAgent (reasoner) and TurtleSoupGame (coordinator).                *)
(*                                                                         *)
(* Text is a sequence of characters.  The module is written in ASCII, so   *)
(* every Chinese character of the source is one character of the model,    *)
(* named by its pinyin:                                                    *)
(*   "bu" U+4E0D   "xiang" U+76F8   "guan" U+5173   "wu" U+65E0             *)
(*   "zhong4" U+91CD   "yao" U+8981   "shi" U+662F   "fou" U+5426           *)
(*   "tui" U+63A8   "li" U+7406   "zui" U+6700   "zhong1" U+7EC8            *)
(*   "ti" U+63D0   "wen" U+95EE                                            *)
(*   "he" U+6838   "xin" U+5FC3   "qing" U+60C5   "jie2" U+8282             *)
(*   "jian" U+952E   "xi" U+7EC6   "luo" U+903B   "ji" U+8F91               *)
(*   "zheng" U+6574   "ti3" U+4F53   "wan" U+5B8C   "du" U+5EA6             *)
(*   "zong" U+603B   "ping" U+8BC4   "fen" U+5206                          *)
(*   "colon" U+FF1A (the full-width colon)                                 *)
(* Printable ASCII characters stand for themselves; "\t", "\n", "\r" and   *)
(* "\f" are the tab, the newline, the carriage return and the form feed.   *)
(* Every other white space character or decimal digit is named by its code *)
(* point, as in "U+3000" and "U+FF13".                                     *)
(* The letters of the model's texts are the ASCII letters.                 *)
(***************************************************************************)
EXTENDS Integers, Sequences, FiniteSets, TLC

VARIABLES
    max_rounds,            \* TurtleSoupGame.max_rounds
    players,               \* TurtleSoupGame.players (name, strategy), in list order
    conversation_history,  \* TurtleSoupGame.conversation_history
    current_round,         \* TurtleSoupGame.current_round
    game_log,              \* TurtleSoupGame.game_log (rounds, final_guesses, winner, ...)
    pc,                    \* position of the one thread of control in run_game
    player_idx,            \* run_game local
    game_ended,            \* run_game local
    correct_guess,         \* run_game local
    player_response,       \* play_round local, between the player's and the host's call
    fg_idx,                \* position of the final-guess loop over self.players
    calls,                 \* the calls made to model_api_call, in order
    response,              \* normalizer harness: the text handed to HostAgent
    normalized,            \* normalizer harness: result of normalize_answer
    judged,                \* normalizer harness: result of evaluate_guess
    npc,                   \* normalizer harness: position
    puzzle_data,           \* the keys of the puzzle_data dict given to the constructor
    key_questions,         \* game_log["key_questions"]
    evaluation,            \* game_log["evaluation"]
    coverage_results,      \* evaluate_question_coverage local
    eval_idx,              \* position of the evaluator's loop
    eval_calls,            \* the calls the evaluator made to model_api_call, in order
    eval_script,           \* the texts model_api_call returns to one evaluate_all
    rubric,                \* score harness: the lines the evaluation response is made of
    scores,                \* score harness: result of _parse_scores
    eval_returned,         \* evaluator: the value the last evaluator method returned
    epc,                   \* evaluator: position
    invocations,           \* the number of times run_game was invoked again
    prompt_history,        \* the conversation_history argument of the last player call
    play_round_calls       \* the number of times a caller invoked play_round itself

game_vars == <<max_rounds, players, conversation_history, current_round, game_log,
               pc, player_idx, game_ended, correct_guess, player_response, fg_idx,
               calls, invocations, prompt_history, play_round_calls>>
norm_vars == <<response, normalized, judged, npc>>
eval_vars == <<puzzle_data, key_questions, evaluation, coverage_results, eval_idx,
               eval_calls, eval_script, rubric, scores, eval_returned, epc>>
vars == <<game_vars, norm_vars, eval_vars>>

----------------------------------------------------------------------------
(* Bounds of the model *)

MaxRoundsBound == 3
MaxTokens == 3

----------------------------------------------------------------------------
(* Text: Python str operations used by the source *)

\* The characters c with c.isspace(): what str.strip() removes and \s matches
Whitespace ==
    { "\t", "\n", "U+000B", "\f", "\r", "U+001C", "U+001D", "U+001E", "U+001F", " ",
      "U+0085", "U+00A0", "U+1680", "U+2000", "U+2001", "U+2002", "U+2003", "U+2004",
      "U+2005", "U+2006", "U+2007", "U+2008", "U+2009", "U+200A", "U+2028", "U+2029",
      "U+202F", "U+205F", "U+3000" }

\* pat in s
Contains(s, pat) ==
    \E i \in 0..(Len(s) - Len(pat)) : SubSeq(s, i + 1, i + Len(pat)) = pat

UpperLetters == <<"A", "B", "C", "D", "E", "F", "G", "H", "I", "J", "K", "L", "M",
                  "N", "O", "P", "Q", "R", "S", "T", "U", "V", "W", "X", "Y", "Z">>
LowerLetters == <<"a", "b", "c", "d", "e", "f", "g", "h", "i", "j", "k", "l", "m",
                  "n", "o", "p", "q", "r", "s", "t", "u", "v", "w", "x", "y", "z">>

\* c.lower()
LowerChar(c) ==
    IF \E i \in 1..Len(UpperLetters) : UpperLetters[i] = c
    THEN LowerLetters[CHOOSE i \in 1..Len(UpperLetters) : UpperLetters[i] = c]
    ELSE c

\* s.lower()
Lower(s) == [i \in 1..Len(s) |-> LowerChar(s[i])]

\* s.strip()
Strip(s) ==
    LET keep == {i \in 1..Len(s) : s[i] \notin Whitespace}
    IN  IF keep = {} THEN <<>>
        ELSE LET lo == CHOOSE i \in keep : \A j \in keep : i <= j
                 hi == CHOOSE i \in keep : \A j \in keep : j <= i
             IN  SubSeq(s, lo, hi)

\* s.startswith(pat)
StartsWith(s, pat) == Len(s) >= Len(pat) /\ SubSeq(s, 1, Len(pat)) = pat

RECURSIVE Flatten(_)
Flatten(ss) == IF ss = <<>> THEN <<>> ELSE Head(ss) \o Flatten(Tail(ss))

----------------------------------------------------------------------------
(* HostAgent *)

ANS_YES == <<"shi">>
ANS_NO == <<"fou">>
ANS_IRRELEVANT == <<"bu", "xiang", "guan">>

MARK_UNRELATED == <<"wu", "guan">>
MARK_UNIMPORTANT == <<"bu", "zhong4", "yao">>
MARK_YES_EN == <<"y", "e", "s">>
MARK_NO_EN == <<"n", "o">>

\* normalize_answer with the irrelevant markers tested last
normalize_answer_no_priority(resp) ==
    IF resp = <<>> THEN ANS_IRRELEVANT
    ELSE LET cleaned == Strip(resp)
         IN  IF Contains(cleaned, ANS_YES) \/ Contains(Lower(cleaned), MARK_YES_EN)
                 THEN ANS_YES
             ELSE IF Contains(cleaned, ANS_NO) \/ Contains(Lower(cleaned), MARK_NO_EN)
                 THEN ANS_NO
             ELSE IF Contains(cleaned, ANS_IRRELEVANT)
                     \/ Contains(cleaned, MARK_UNRELATED)
                     \/ Contains(cleaned, MARK_UNIMPORTANT)
                 THEN ANS_IRRELEVANT
             ELSE ANS_IRRELEVANT

\* normalize_answer with the negative markers tested before the affirmative ones
normalize_answer_no_first(resp) ==
    IF resp = <<>> THEN ANS_IRRELEVANT
    ELSE LET cleaned == Strip(resp)
         IN  IF Contains(cleaned, ANS_IRRELEVANT)
                \/ Contains(cleaned, MARK_UNRELATED)
                \/ Contains(cleaned, MARK_UNIMPORTANT)
                 THEN ANS_IRRELEVANT
             ELSE IF Contains(cleaned, ANS_NO) \/ Contains(Lower(cleaned), MARK_NO_EN)
                 THEN ANS_NO
             ELSE IF Contains(cleaned, ANS_YES) \/ Contains(Lower(cleaned), MARK_YES_EN)
                 THEN ANS_YES
             ELSE ANS_IRRELEVANT

\* normalize_answer falling back to negative
normalize_answer_default_no(resp) ==
    IF resp = <<>> THEN ANS_IRRELEVANT
    ELSE LET cleaned == Strip(resp)
         IN  IF Contains(cleaned, ANS_IRRELEVANT)
                \/ Contains(cleaned, MARK_UNRELATED)
                \/ Contains(cleaned, MARK_UNIMPORTANT)
                 THEN ANS_IRRELEVANT
             ELSE IF Contains(cleaned, ANS_YES) \/ Contains(Lower(cleaned), MARK_YES_EN)
                 THEN ANS_YES
             ELSE ANS_NO

\* HostAgent.normalize_answer
normalize_answer(resp) ==
    IF resp = <<>> THEN ANS_IRRELEVANT
    ELSE LET cleaned == Strip(resp)
         IN  IF Contains(cleaned, ANS_IRRELEVANT)
                \/ Contains(cleaned, MARK_UNRELATED)
                \/ Contains(cleaned, MARK_UNIMPORTANT)
                 THEN ANS_IRRELEVANT
             ELSE IF Contains(cleaned, ANS_YES) \/ Contains(Lower(cleaned), MARK_YES_EN)
                 THEN ANS_YES
             ELSE IF Contains(cleaned, ANS_NO) \/ Contains(Lower(cleaned), MARK_NO_EN)
                 THEN ANS_NO
             ELSE ANS_IRRELEVANT

\* HostAgent.answer_question, given the text model_api_call returned
answer_question(resp) == normalize_answer(resp)

\* evaluate_guess returning the normalization as it is
evaluate_guess_uncollapsed(resp) == normalize_answer(resp)

\* HostAgent.evaluate_guess, given the text model_api_call returned
evaluate_guess(resp) ==
    LET norm == normalize_answer(resp)
    IN  IF norm = ANS_YES THEN ANS_YES ELSE ANS_NO

----------------------------------------------------------------------------
(* PlayerAgent: the utterances and final guesses the text generator may return *)

TAG_QUESTION == <<"[", "ti", "wen", "]">>
TAG_GUESS == <<"[", "tui", "li", "]">>
TAG_FINAL_GUESS == <<"[", "zui", "zhong1", "tui", "li", "]">>

\* The texts model_api_call may return to PlayerAgent.ask_question
Utterances ==
    { <<"x">>,
      TAG_QUESTION \o <<"x">>,
      TAG_GUESS \o <<"x">>,
      TAG_FINAL_GUESS \o <<"x">>,
      TAG_QUESTION \o <<"x">> \o TAG_GUESS }

\* The texts model_api_call may return to PlayerAgent.make_final_guess
FinalTexts == { <<"y">>, TAG_FINAL_GUESS \o <<"y">> }

\* The texts model_api_call may return to HostAgent
HostResponses ==
    { <<>>, <<"shi">>, <<"fou">>, ANS_IRRELEVANT, <<"Y", "e", "s">>, <<"x">>,
      <<"wu", "guan">> \o <<"shi">> }

----------------------------------------------------------------------------
(* TurtleSoupGame *)

\* A value that is None or a str: None is the empty tuple, the str s is <<s>>,
\* so that no str, the str "None" included, is equal to None
None == <<>>
Some(s) == <<s>>

\* The str of a value that is not None
StrOf(v) == v[1]

\* A text that is None: "None" is no character, so no text is equal to it
NoText == <<"None">>
WIN_NOTICE == <<"notice">>

\* Python truth value of `not v` for None or a str
Falsy(v) == v = None \/ v = Some("")

Player(n, s) == [name |-> n, strategy |-> s]

\* players_config values the constructor accepts (it validates none of them)
PlayerConfigs ==
    { <<>>,
      <<Player("A", "systematic")>>,
      <<Player("None", "systematic")>>,
      <<Player("A", "systematic"), Player("B", "creative")>>,
      <<Player("A", "systematic"), Player("A", "creative")>>,
      <<Player("", "systematic"), Player("B", "creative")>>,
      <<Player("A", "systematic"), Player("B", "creative"), Player("C", "unknown")>> }

\* max_rounds values the constructor accepts (it validates none of them)
MaxRoundsValues == (-1)..MaxRoundsBound

\* dict[key] = value
DictSet(d, key, value) ==
    [k \in (DOMAIN d) \cup {key} |-> IF k = key THEN value ELSE d[k]]

EmptyDict == [k \in {} |-> NoText]

\* A dict whose order of keys is read by the code: its items in the order in
\* which the keys were first inserted
EmptyOrderedDict == <<>>

\* d.keys(), as a set and in order
Keys(d) == {d[i].key : i \in 1..Len(d)}
KeyOrder(d) == [i \in 1..Len(d) |-> d[i].key]

\* d[key]
Get(d, key) == d[CHOOSE i \in 1..Len(d) : d[i].key = key].value

\* d[key] = value: a key already present keeps its place
OrderedDictSet(d, key, value) ==
    IF key \in Keys(d)
    THEN [i \in 1..Len(d) |-> IF d[i].key = key THEN [key |-> key, value |-> value]
                               ELSE d[i]]
    ELSE Append(d, [key |-> key, value |-> value])

\* The mapping of a dict, its order forgotten
Mapping(d) == [k \in Keys(d) |-> Get(d, k)]

\* A call of model_api_call: the method that made it, the list position of the
\* player it was made for (0 for the host), and the number of the round whose
\* round_info holds what it returned (0 when no round_info does)
Call(op, who) == [op |-> op, who |-> who, round |-> 0]

\* The host's call of a round that is recorded: its return value is the
\* "answer" of the round_info with this "round"
HostCall(op, round) == [op |-> op, who |-> 0, round |-> round]

\* play_round: is_guess
is_guess(utterance) ==
    Contains(utterance, TAG_GUESS) \/ Contains(utterance, TAG_FINAL_GUESS)

guess_correct_always(host_answer) == TRUE

\* play_round: guess_correct of a guess round
guess_correct(host_answer) == host_answer = ANS_YES

LoopConditionOffByOne(cr, mr, ended) == cr <= mr /\ ~ended

\* run_game: the while condition
LoopCondition(cr, mr, ended) == cr < mr /\ ~ended

\* run_game: the round just played ends the game
IsCorrectGuess(round_info) == round_info.is_guess /\ round_info.guess_correct

\* run_game without the rotation
NextPlayerStays(idx, n) == idx

\* run_game: rotate the players
NextPlayer(idx, n) == (idx + 1) % n

\* The keys HostAgent.__init__ reads from puzzle_data
HostAgentKeys == {"surface", "bottom", "key_question", "story_tree"}

\* The keys TurtleSoupGame.__init__ reads with puzzle_data[...]
GameLogKeys == {"surface", "bottom", "key_question"}

\* The keys of a puzzle record; "index" is read with .get and may be absent
PuzzleKeys == HostAgentKeys \cup {"index"}

\* The key questions of the puzzle the games are played on
DefaultKeyQuestions == <<"k1", "k2">>

NoScores == [core_plot |-> 0, key_details |-> 0, logical_reasoning |-> 0,
             completeness |-> 0, total |-> 0]

\* The evaluator has not been used: game_log["evaluation"] is the empty dict
EvaluatorAtRest ==
    /\ key_questions = DefaultKeyQuestions
    /\ evaluation = EmptyDict
    /\ coverage_results = EmptyDict
    /\ eval_idx = 0
    /\ eval_calls = <<>>
    /\ eval_script = <<>>
    /\ rubric = <<>>
    /\ scores = NoScores
    /\ eval_returned = EmptyDict
    /\ epc = "off"

Init ==
    /\ max_rounds \in MaxRoundsValues
    /\ players \in PlayerConfigs
    /\ conversation_history = <<>>
    /\ current_round = 0
    /\ game_log = [rounds |-> <<>>, final_guesses |-> EmptyOrderedDict, winner |-> None]
    /\ pc = "constructed"
    /\ player_idx = 0
    /\ game_ended = FALSE
    /\ correct_guess = NoText
    /\ player_response = NoText
    /\ fg_idx = 0
    /\ invocations = 0
    /\ play_round_calls = 0
    /\ prompt_history = <<>>
    /\ calls = <<>>
    /\ response = <<>>
    /\ normalized = NoText
    /\ judged = NoText
    /\ npc = "off"
    /\ puzzle_data = PuzzleKeys
    /\ EvaluatorAtRest

\* run_game: entry, up to the while loop
RunGameBegin ==
    /\ pc = "constructed"
    /\ player_idx' = 0
    /\ game_ended' = FALSE
    /\ correct_guess' = NoText
    /\ pc' = "loop"
    /\ UNCHANGED <<max_rounds, players, conversation_history, current_round, game_log,
                   player_response, fg_idx, calls, norm_vars, eval_vars, play_round_calls,
                   invocations, prompt_history>>

\* play_round: self.players[player_idx] on an empty list raises IndexError
PlayRoundIndexError ==
    /\ pc = "loop"
    /\ LoopCondition(current_round, max_rounds, game_ended)
    /\ player_idx >= Len(players)
    /\ pc' = "raised"
    /\ UNCHANGED <<max_rounds, players, conversation_history, current_round, game_log,
                   player_idx, game_ended, correct_guess, player_response, fg_idx,
                   calls, norm_vars, eval_vars, play_round_calls, invocations, prompt_history>>

\* play_round: player.ask_question returns an utterance
PlayerTurn ==
    /\ pc = "loop"
    /\ LoopCondition(current_round, max_rounds, game_ended)
    /\ player_idx < Len(players)
    /\ \E u \in Utterances : player_response' = u
    /\ prompt_history' = conversation_history
    /\ calls' = Append(calls, Call("ask_question", player_idx + 1))
    /\ pc' = "host"
    /\ UNCHANGED <<max_rounds, players, conversation_history, current_round, game_log,
                   player_idx, game_ended, correct_guess, fg_idx, norm_vars, eval_vars,
                   play_round_calls, invocations>>

\* play_round: model_api_call raises inside player.ask_question
PlayerTurnFails ==
    /\ pc = "loop"
    /\ LoopCondition(current_round, max_rounds, game_ended)
    /\ player_idx < Len(players)
    /\ prompt_history' = conversation_history
    /\ calls' = Append(calls, Call("ask_question", player_idx + 1))
    /\ pc' = "raised"
    /\ UNCHANGED <<max_rounds, players, conversation_history, current_round, game_log,
                   player_idx, game_ended, correct_guess, player_response, fg_idx,
                   norm_vars, eval_vars, play_round_calls, invocations>>

RoundIndexZeroBased(cr) == cr

\* play_round: the "round" entry of round_info
RoundIndex(cr) == cr + 1

AppendHistoryQuestionsOnly(h, round_info) ==
    IF round_info.is_guess THEN h ELSE Append(h, round_info)

AppendHistoryNewestFirst(h, round_info) == <<round_info>> \o h

\* play_round: self.conversation_history.append(round_info), in both branches
AppendHistory(h, round_info) == Append(h, round_info)

\* play_round from the host's call to its return, then the rest of the loop body
HostTurn ==
    /\ pc = "host"
    /\ \E r \in HostResponses :
         LET player == players[player_idx + 1]
             guess == is_guess(player_response)
             host_answer == IF guess THEN evaluate_guess(r) ELSE answer_question(r)
             round_info == [round |-> RoundIndex(current_round),
                            player |-> player.name,
                            question |-> player_response,
                            answer |-> host_answer,
                            is_guess |-> guess,
                            guess_correct |-> IF guess THEN guess_correct(host_answer)
                                              ELSE FALSE]
         IN  /\ conversation_history' = AppendHistory(conversation_history, round_info)
             /\ current_round' = current_round + 1
             /\ calls' = Append(calls, HostCall(IF guess THEN "evaluate_guess"
                                                ELSE "answer_question",
                                                round_info.round))
             /\ IF IsCorrectGuess(round_info)
                THEN /\ game_log' = [game_log EXCEPT !.rounds = Append(@, round_info),
                                                     !.winner = Some(player.name)]
                     /\ correct_guess' = round_info.question
                     /\ game_ended' = TRUE
                     /\ player_idx' = player_idx
                     /\ pc' = "after_loop"
                ELSE /\ game_log' = [game_log EXCEPT !.rounds = Append(@, round_info)]
                     /\ player_idx' = NextPlayer(player_idx, Len(players))
                     /\ pc' = "loop"
                     /\ UNCHANGED <<correct_guess, game_ended>>
    /\ player_response' = NoText
    /\ UNCHANGED <<max_rounds, players, fg_idx, norm_vars, eval_vars, play_round_calls,
                   invocations, prompt_history>>

\* play_round with the host's failure swallowed and the call made again
HostTurnFailsRetried ==
    /\ pc = "host"
    /\ calls' = Append(calls, Call(IF is_guess(player_response) THEN "evaluate_guess"
                                   ELSE "answer_question", 0))
    /\ UNCHANGED <<max_rounds, players, conversation_history, current_round, game_log,
                   pc, player_idx, game_ended, correct_guess, player_response, fg_idx,
                   norm_vars, eval_vars, play_round_calls, invocations, prompt_history>>

\* play_round with the player's utterance put on the history before the host's
\* call is made
HostTurnFailsPartialRound ==
    /\ pc = "host"
    /\ calls' = Append(calls, Call(IF is_guess(player_response) THEN "evaluate_guess"
                                   ELSE "answer_question", 0))
    /\ conversation_history' =
           Append(conversation_history,
                  [round |-> RoundIndex(current_round),
                   player |-> players[player_idx + 1].name,
                   question |-> player_response,
                   answer |-> NoText,
                   is_guess |-> is_guess(player_response),
                   guess_correct |-> FALSE])
    /\ pc' = "raised"
    /\ UNCHANGED <<max_rounds, players, current_round, game_log,
                   player_idx, game_ended, correct_guess, player_response, fg_idx,
                   norm_vars, eval_vars, play_round_calls, invocations, prompt_history>>

\* play_round: model_api_call raises inside the host's call
HostTurnFails ==
    /\ pc = "host"
    /\ calls' = Append(calls, Call(IF is_guess(player_response) THEN "evaluate_guess"
                                   ELSE "answer_question", 0))
    /\ pc' = "raised"
    /\ UNCHANGED <<max_rounds, players, conversation_history, current_round, game_log,
                   player_idx, game_ended, correct_guess, player_response, fg_idx,
                   norm_vars, eval_vars, play_round_calls, invocations, prompt_history>>

\* run_game: the while condition is false
LoopExit ==
    /\ pc = "loop"
    /\ ~LoopCondition(current_round, max_rounds, game_ended)
    /\ pc' = "after_loop"
    /\ UNCHANGED <<max_rounds, players, conversation_history, current_round, game_log,
                   player_idx, game_ended, correct_guess, player_response, fg_idx,
                   calls, norm_vars, eval_vars, play_round_calls, invocations, prompt_history>>

\* run_game: `if not self.game_log["winner"]`
AsksFinalGuesses(winner) == Falsy(winner)

\* run_game: `correct_guess or <notice>`
WinnerEntry(guess) == IF guess = NoText \/ guess = <<>> THEN WIN_NOTICE ELSE guess

\* run_game: one iteration of `for player in self.players`
FinalGuessTurn ==
    /\ pc = "after_loop"
    /\ AsksFinalGuesses(game_log.winner)
    /\ fg_idx < Len(players)
    /\ \E t \in FinalTexts :
         game_log' = [game_log EXCEPT
                        !.final_guesses = OrderedDictSet(@, players[fg_idx + 1].name, t)]
    /\ prompt_history' = conversation_history
    /\ calls' = Append(calls, Call("make_final_guess", fg_idx + 1))
    /\ fg_idx' = fg_idx + 1
    /\ UNCHANGED <<max_rounds, players, conversation_history, current_round, pc,
                   player_idx, game_ended, correct_guess, player_response, norm_vars,
                   eval_vars, play_round_calls, invocations>>

\* run_game: model_api_call raises inside player.make_final_guess
FinalGuessFails ==
    /\ pc = "after_loop"
    /\ AsksFinalGuesses(game_log.winner)
    /\ fg_idx < Len(players)
    /\ prompt_history' = conversation_history
    /\ calls' = Append(calls, Call("make_final_guess", fg_idx + 1))
    /\ pc' = "raised"
    /\ UNCHANGED <<max_rounds, players, conversation_history, current_round, game_log,
                   player_idx, game_ended, correct_guess, player_response, fg_idx,
                   norm_vars, eval_vars, play_round_calls, invocations>>

\* run_game: the winner's entry (else branch), end_time, total_rounds, return
Finish ==
    /\ pc = "after_loop"
    /\ AsksFinalGuesses(game_log.winner) => fg_idx = Len(players)
    /\ LET fg == IF AsksFinalGuesses(game_log.winner)
                 THEN game_log.final_guesses
                 ELSE OrderedDictSet(game_log.final_guesses, StrOf(game_log.winner),
                                     WinnerEntry(correct_guess))
       IN  game_log' = [rounds |-> game_log.rounds,
                        final_guesses |-> fg,
                        winner |-> game_log.winner,
                        end_time |-> "set",
                        total_rounds |-> current_round]
    /\ pc' = "done"
    /\ UNCHANGED <<max_rounds, players, conversation_history, current_round,
                   player_idx, game_ended, correct_guess, player_response, fg_idx,
                   calls, norm_vars, eval_vars, play_round_calls, invocations, prompt_history>>

Next ==
    \/ RunGameBegin
    \/ PlayRoundIndexError
    \/ PlayerTurn
    \/ PlayerTurnFails
    \/ HostTurn
    \/ HostTurnFails
    \/ LoopExit
    \/ FinalGuessTurn
    \/ FinalGuessFails
    \/ Finish

Spec == Init /\ [][Next]_vars

----------------------------------------------------------------------------
(* HostAgent on its own: normalize_answer and evaluate_guess applied to the  *)
(* texts the text generator may return                                       *)

NormTokens ==
    { ANS_IRRELEVANT, MARK_UNRELATED, MARK_UNIMPORTANT, ANS_YES, ANS_NO,
      MARK_YES_EN, <<"Y", "E", "S">>, MARK_NO_EN, <<"N">>, <<"o">>,
      <<" ">>, <<"\n">>, <<"U+3000">>, <<"x">>, <<"bu">>, <<"guan">>, <<"wu">> }

\* Every concatenation of at most MaxTokens tokens
NormInputs ==
    { Flatten(ts) : ts \in UNION { [1..n -> NormTokens] : n \in 0..MaxTokens } }

InitNorm ==
    /\ max_rounds = 0
    /\ players = <<>>
    /\ conversation_history = <<>>
    /\ current_round = 0
    /\ game_log = [rounds |-> <<>>, final_guesses |-> EmptyOrderedDict, winner |-> None]
    /\ pc = "off"
    /\ player_idx = 0
    /\ game_ended = FALSE
    /\ correct_guess = NoText
    /\ player_response = NoText
    /\ fg_idx = 0
    /\ invocations = 0
    /\ play_round_calls = 0
    /\ prompt_history = <<>>
    /\ calls = <<>>
    /\ response \in NormInputs
    /\ normalized = NoText
    /\ judged = NoText
    /\ npc = "input"
    /\ puzzle_data = PuzzleKeys
    /\ EvaluatorAtRest

\* HostAgent.normalize_answer(response)
NormalizeAnswer ==
    /\ npc = "input"
    /\ normalized' = normalize_answer(response)
    /\ npc' = "normalized"
    /\ UNCHANGED <<game_vars, response, judged, eval_vars>>

\* HostAgent.evaluate_guess, model_api_call returning response
EvaluateGuess ==
    /\ npc = "normalized"
    /\ judged' = evaluate_guess(response)
    /\ npc' = "judged"
    /\ UNCHANGED <<game_vars, response, normalized, eval_vars>>

NextNorm ==
    \/ NormalizeAnswer
    \/ EvaluateGuess

SpecNorm == InitNorm /\ [][NextNorm]_vars

----------------------------------------------------------------------------
(* Vocabulary of the properties *)

Rounds == game_log.rounds
FinalGuesses == Mapping(game_log.final_guesses)
NumPlayers == Len(players)

WinningRounds == {k \in 1..Len(Rounds) : Rounds[k].guess_correct}
FirstWinningRound == CHOOSE k \in WinningRounds : \A j \in WinningRounds : k <= j

Returned == pc = "done"
WinnerFound == Returned /\ WinningRounds # {}
RoundsExhausted == Returned /\ WinningRounds = {}

\* The positions in calls of the calls of one operation
CallsOf(op) == {i \in 1..Len(calls) : calls[i].op = op}
FinalGuessCalls == CallsOf("make_final_guess")

----------------------------------------------------------------------------
(* C1: for max_rounds >= 1 and n >= 1 participants, when the first guess    *)
(* judged affirmative is round k, run_game returns with total_rounds = k,    *)
(* exactly k recorded rounds, winner = the actor of round k, and             *)
(* final_guesses holding exactly one entry, keyed by the winner.             *)
C1_WinnerFoundRecord ==
    (Returned /\ max_rounds >= 1 /\ NumPlayers >= 1 /\ WinningRounds # {}) =>
        LET k == FirstWinningRound
        IN  /\ game_log.total_rounds = k
            /\ Len(Rounds) = k
            /\ game_log.winner = Some(Rounds[k].player)
            /\ DOMAIN FinalGuesses = {Rounds[k].player}

(* C2 as stated: the turn index advances to (i+1) mod n after every round,  *)
(* a winning guess included.                                                 *)
C2_AdvancesAfterEveryRound ==
    [][Len(game_log.rounds') = Len(game_log.rounds) + 1 =>
           player_idx' = (player_idx + 1) % Len(players)]_vars

ActorOfRound(k) == players[((k - 1) % NumPlayers) + 1].name

(* C2 as amended: the turn index starts at 0; after every round that is not *)
(* a winning guess (a question or a rejected guess) it advances to           *)
(* (i+1) mod n, and after a winning guess it stays at the winner's index;    *)
(* the actor of recorded round k is the participant at list index            *)
(* (k-1) mod n, so a participant whose guess was rejected acts again in its  *)
(* later turns.                                                              *)
C2_TurnOrder ==
    /\ [](pc = "loop" /\ current_round = 0 => player_idx = 0)
    /\ [](\A k \in 1..Len(Rounds) : Rounds[k].player = ActorOfRound(k))
    /\ [][Len(game_log.rounds') = Len(game_log.rounds) + 1 =>
            LET r == game_log.rounds'[Len(game_log.rounds')]
            IN  /\ r.round = current_round + 1
                /\ r.player = players[player_idx + 1].name
                /\ player_idx' = IF r.guess_correct THEN player_idx
                                 ELSE (player_idx + 1) % Len(players)]_vars

\* A rejected guess of a participant, the same participant acting again one
\* cycle later, and a winning guess after which the index has not moved
C2_Witness ==
    /\ NumPlayers = 2
    /\ Len(Rounds) = 3
    /\ Rounds[1].is_guess /\ ~Rounds[1].guess_correct
    /\ Rounds[3].player = Rounds[1].player
    /\ Rounds[2].player # Rounds[1].player
    /\ Rounds[3].guess_correct
    /\ player_idx = 0

(* C3: when run_game returns with no winning guess, every participant was   *)
(* asked for a final guess exactly once, in list order, after the last       *)
(* round, and final_guesses holds one entry per participant.                 *)
C3_FinalGuessPerParticipant ==
    RoundsExhausted =>
        /\ Cardinality(DOMAIN FinalGuesses) = NumPlayers
        /\ Cardinality(FinalGuessCalls) = NumPlayers
        /\ \A i \in 1..NumPlayers :
             /\ Len(calls) - NumPlayers + i \in FinalGuessCalls
             /\ calls[Len(calls) - NumPlayers + i].who = i
             /\ players[i].name \in DOMAIN FinalGuesses

(* C4: when run_game returns after a winning guess, the winner's entry of   *)
(* final_guesses is the utterance of the winning round, and the call that    *)
(* judged the winning guess is the last call made.                           *)
C4_WinnerEntryIsWinningUtterance ==
    WinnerFound =>
        /\ game_log.winner # None
        /\ StrOf(game_log.winner) \in DOMAIN FinalGuesses
        /\ FinalGuesses[StrOf(game_log.winner)] = Rounds[FirstWinningRound].question
        /\ FinalGuessCalls = {}
        /\ calls[Len(calls)].op = "evaluate_guess"

(* C5: the number of completed rounds never exceeds max_rounds, in every    *)
(* state and in the returned record, for every max_rounds the constructor    *)
(* accepts.                                                                  *)
C5_RoundsWithinCeiling ==
    /\ current_round <= max_rounds
    /\ Returned => game_log.total_rounds <= max_rounds

(* C6: in every reachable state at most one recorded round has guess_correct *)
(* = true, and if there is one it is the last element of rounds.             *)
C6_AtMostOneWinningRound ==
    /\ Cardinality(WinningRounds) <= 1
    /\ \A k \in WinningRounds : k = Len(Rounds)

----------------------------------------------------------------------------
(* Markers, read off the text itself *)

HasIrrelevantMarker(t) ==
    \E i \in 1..Len(t) :
        \/ i + 2 <= Len(t) /\ t[i] = "bu" /\ t[i + 1] = "xiang" /\ t[i + 2] = "guan"
        \/ i + 1 <= Len(t) /\ t[i] = "wu" /\ t[i + 1] = "guan"
        \/ i + 2 <= Len(t) /\ t[i] = "bu" /\ t[i + 1] = "zhong4" /\ t[i + 2] = "yao"

HasAffirmativeMarker(t) ==
    \E i \in 1..Len(t) :
        \/ t[i] = "shi"
        \/ i + 2 <= Len(t) /\ t[i] \in {"y", "Y"} /\ t[i + 1] \in {"e", "E"}
                           /\ t[i + 2] \in {"s", "S"}

HasNegativeMarker(t) ==
    \E i \in 1..Len(t) :
        \/ t[i] = "fou"
        \/ i + 1 <= Len(t) /\ t[i] \in {"n", "N"} /\ t[i + 1] \in {"o", "O"}

WhitespaceOnly(t) == \A i \in 1..Len(t) : t[i] \in Whitespace

(* C7: evaluate_guess returns affirmative exactly when the normalization of *)
(* the response is affirmative and negative otherwise; a response            *)
(* normalizing to irrelevant yields negative, never irrelevant.              *)
C7_JudgeCollapses ==
    npc = "judged" =>
        /\ judged \in {ANS_YES, ANS_NO}
        /\ judged = ANS_YES <=> normalized = ANS_YES
        /\ normalized = ANS_IRRELEVANT => judged = ANS_NO

\* A response that normalizes to irrelevant was judged negative
C7_Witness ==
    /\ npc = "judged"
    /\ HasIrrelevantMarker(response)
    /\ normalized = ANS_IRRELEVANT
    /\ judged = ANS_NO

(* C8: every text containing an irrelevant marker anywhere normalizes to    *)
(* irrelevant, whatever affirmative or negative markers it also contains.    *)
C8_IrrelevantMarkerWins ==
    (npc # "input" /\ HasIrrelevantMarker(response)) => normalized = ANS_IRRELEVANT

\* A text with an irrelevant marker followed by an affirmative one
C8_Witness ==
    /\ npc = "normalized"
    /\ HasIrrelevantMarker(response)
    /\ HasAffirmativeMarker(response)
    /\ HasNegativeMarker(response)
    /\ normalized = ANS_IRRELEVANT

(* C9: every text containing an affirmative marker and no irrelevant marker *)
(* normalizes to affirmative, also when it contains a negative marker.       *)
C9_AffirmativeBeforeNegative ==
    (npc # "input" /\ HasAffirmativeMarker(response) /\ ~HasIrrelevantMarker(response))
        => normalized = ANS_YES

\* A text with an upper-case yes after a negative marker
C9_Witness ==
    /\ npc = "normalized"
    /\ Contains(response, <<"Y", "E", "S">>)
    /\ HasNegativeMarker(response)
    /\ ~HasIrrelevantMarker(response)
    /\ normalized = ANS_YES

(* C10: normalize_answer returns one of the three answers for every text;   *)
(* irrelevant for the empty text, for white space only, and for a text with  *)
(* no marker; negative only when a negative marker is present and no         *)
(* irrelevant or affirmative one is.                                         *)
C10_TotalWithFallback ==
    npc # "input" =>
        /\ normalized \in {ANS_YES, ANS_NO, ANS_IRRELEVANT}
        /\ response = <<>> => normalized = ANS_IRRELEVANT
        /\ WhitespaceOnly(response) => normalized = ANS_IRRELEVANT
        /\ (~HasIrrelevantMarker(response) /\ ~HasAffirmativeMarker(response)
               /\ ~HasNegativeMarker(response)) => normalized = ANS_IRRELEVANT
        /\ normalized = ANS_NO =>
               (HasNegativeMarker(response) /\ ~HasIrrelevantMarker(response)
                   /\ ~HasAffirmativeMarker(response))

\* A text of letters carrying no marker fell back to irrelevant
C10_Witness ==
    /\ npc = "normalized"
    /\ response # <<>>
    /\ ~WhitespaceOnly(response)
    /\ ~HasIrrelevantMarker(response)
    /\ ~HasAffirmativeMarker(response)
    /\ ~HasNegativeMarker(response)
    /\ normalized = ANS_IRRELEVANT

----------------------------------------------------------------------------
(* Configuration errors and collaborator failures *)

\* TurtleSoupGame.__init__ stores max_rounds as given (game_controller.py line
\* 35) and builds one PlayerAgent per entry of players_config (lines 46-49);
\* neither it nor run_game compares max_rounds with 0, counts the participants
\* or compares their names. Init therefore admits every value of
\* MaxRoundsValues and every list of PlayerConfigs, and run_game starts from
\* each of them.

\* No two participants of the list carry the same name
NamesUnique ==
    \A i, j \in 1..NumPlayers : i # j => players[i].name # players[j].name

\* run_game with max_rounds = 0 and one participant skips the loop, calls
\* make_final_guess once and returns a record with total_rounds = 0.
(* C11: a game started with max_rounds <= 0 is rejected before any round    *)
(* executes and before any text generator call (final guesses included):     *)
(* it makes no call and returns no record.                                   *)
C11_NonPositiveMaxRoundsRejected ==
    max_rounds <= 0 => (calls = <<>> /\ Rounds = <<>> /\ ~Returned)

\* run_game with the participants A and A plays its rounds and returns a
\* record whose final_guesses holds the one key A for the two of them.
(* C12: a game whose participant list holds the same name twice is rejected *)
(* before any round executes, so in every game that runs the names are       *)
(* unique and final_guesses never merges two participants into one entry.    *)
C12_DuplicateNamesRejected ==
    /\ (calls # <<>> \/ Rounds # <<>> \/ Returned) => NamesUnique
    /\ RoundsExhausted => Cardinality(DOMAIN FinalGuesses) = NumPlayers

\* run_game with no participant and max_rounds <= 0 skips the loop, asks
\* nobody and returns a record; with max_rounds >= 1 it stops in play_round
\* by the IndexError of self.players[0].
(* C13: a game with no participant is rejected before any round executes,   *)
(* for every max_rounds, and never completes and returns a record.           *)
C13_NoParticipantsRejected ==
    NumPlayers = 0 => (Rounds = <<>> /\ ~Returned)

\* A step that made a call and recorded what the call returned
CallResultRecorded ==
    \/ pc = "loop" /\ pc' = "host" /\ player_response' # NoText
    \/ pc = "host" /\ Len(game_log.rounds') = Len(game_log.rounds) + 1
    \/ pc = "after_loop" /\ fg_idx' = fg_idx + 1
                         /\ game_log'.final_guesses # EmptyOrderedDict

(* C15: when a text generator call made during run_game fails, run_game     *)
(* ends with that failure: every call either has its result recorded or      *)
(* raises, and after the failure nothing more happens - no retry, no later   *)
(* call, no record returned.                                                 *)
C15_FailurePropagates ==
    /\ [][Len(calls') = Len(calls) + 1 => (pc' = "raised" \/ CallResultRecorded)]_vars
    /\ [][pc = "raised" => (pc' = "raised" /\ calls' = calls /\ game_log' = game_log
                             /\ current_round' = current_round)]_vars

\* The host's call of the second round failed: the run stopped there
C15_Witness ==
    /\ pc = "raised"
    /\ Len(calls) = 4
    /\ Len(Rounds) = 1
    /\ calls[4].op = "evaluate_guess"
    /\ "total_rounds" \notin DOMAIN game_log

----------------------------------------------------------------------------
(* TurtleSoupGame.__init__ on puzzle records with and without their fields, *)
(* followed by run_game                                                      *)

\* HostAgent.__init__ reading fewer keys
HostAgentInitOkNoStoryTree(pd) == (HostAgentKeys \ {"story_tree"}) \subseteq pd

\* HostAgent.__init__: puzzle_data[...] raises KeyError on a missing key
HostAgentInitOk(pd) == HostAgentKeys \subseteq pd

\* TurtleSoupGame.__init__: the game_log literal reads puzzle_data[...]
GameLogInitOk(pd) == GameLogKeys \subseteq pd

InitCtor ==
    /\ max_rounds \in {0, 1}
    /\ players \in PlayerConfigs
    /\ conversation_history = <<>>
    /\ current_round = 0
    /\ game_log = [rounds |-> <<>>, final_guesses |-> EmptyOrderedDict, winner |-> None]
    /\ pc = "new"
    /\ player_idx = 0
    /\ game_ended = FALSE
    /\ correct_guess = NoText
    /\ player_response = NoText
    /\ fg_idx = 0
    /\ invocations = 0
    /\ play_round_calls = 0
    /\ prompt_history = <<>>
    /\ calls = <<>>
    /\ response = <<>>
    /\ normalized = NoText
    /\ judged = NoText
    /\ npc = "off"
    /\ puzzle_data \in SUBSET PuzzleKeys
    /\ EvaluatorAtRest

\* TurtleSoupGame.__init__ returns the game
Construct ==
    /\ pc = "new"
    /\ HostAgentInitOk(puzzle_data)
    /\ GameLogInitOk(puzzle_data)
    /\ pc' = "constructed"
    /\ UNCHANGED <<max_rounds, players, conversation_history, current_round, game_log,
                   player_idx, game_ended, correct_guess, player_response, fg_idx,
                   calls, norm_vars, eval_vars, play_round_calls, invocations, prompt_history>>

\* TurtleSoupGame.__init__ raises KeyError
ConstructKeyError ==
    /\ pc = "new"
    /\ ~(HostAgentInitOk(puzzle_data) /\ GameLogInitOk(puzzle_data))
    /\ pc' = "ctor_raised"
    /\ UNCHANGED <<max_rounds, players, conversation_history, current_round, game_log,
                   player_idx, game_ended, correct_guess, player_response, fg_idx,
                   calls, norm_vars, eval_vars, play_round_calls, invocations, prompt_history>>

NextCtor ==
    \/ Construct
    \/ ConstructKeyError
    \/ Next

SpecCtor == InitCtor /\ [][NextCtor]_vars

(* C14: constructing a game from puzzle data that lacks surface, bottom,    *)
(* key_question or story_tree fails at construction: no round is scheduled   *)
(* and no text generator call is made.                                       *)
C14_MissingFieldFailsAtConstruction ==
    (HostAgentKeys \ puzzle_data # {}) =>
        /\ pc \in {"new", "ctor_raised"}
        /\ calls = <<>>
        /\ Rounds = <<>>
        /\ current_round = 0

\* Construction failed on a puzzle that lacks story_tree only
C14_Witness ==
    /\ pc = "ctor_raised"
    /\ HostAgentKeys \ puzzle_data = {"story_tree"}
    /\ max_rounds = 1
    /\ NumPlayers = 2

----------------------------------------------------------------------------
(* GameEvaluator.evaluate_question_coverage *)

MaxKeyQuestions == 3

KeyQuestionTexts == {"k1", "k2"}

\* The key_question lists of a puzzle: ordered, a text may occur twice
KeyQuestionLists ==
    UNION { [1..n -> KeyQuestionTexts] : n \in 0..MaxKeyQuestions }

\* The texts model_api_call may return to a coverage judgment
CoverageResponses ==
    { <<"shi">>, <<" ", "shi", "\n", "x">>, <<"U+3000", "\t", "shi", "\r", "\n">>,
      <<"bu", "shi">>, <<"fou">>, <<>> }

\* Exact fractions: num / den
Frac(n, d) == [num |-> n, den |-> d]
FracEq(a, b) == a.num * b.den = b.num * a.den
FracInUnit(a) == a.den > 0 /\ 0 <= a.num /\ a.num <= a.den

\* evaluate_question_coverage: is_covered
is_covered(resp) == StartsWith(Strip(resp), ANS_YES)

\* evaluate_question_coverage: one iteration of `for key_q in self.key_questions`
CoverageStep(results, key_q, resp) ==
    DictSet(results, key_q, [covered |-> is_covered(resp), response |-> resp])

\* evaluate_question_coverage: the value returned after the loop
CoverageSummary(results, kqs) ==
    LET covered_count == Cardinality({k \in DOMAIN results : results[k].covered})
    IN  [coverage_details |-> results,
         covered_count |-> covered_count,
         total_key_questions |-> Len(kqs),
         coverage_rate |-> IF Len(kqs) # 0 THEN Frac(covered_count, Len(kqs))
                           ELSE Frac(0, 1)]

\* Everything outside the evaluator at rest: no game is being constructed or played
GameAtRest ==
    /\ max_rounds = 0
    /\ players = <<>>
    /\ conversation_history = <<>>
    /\ current_round = 0
    /\ game_log = [rounds |-> <<>>, final_guesses |-> EmptyOrderedDict, winner |-> None]
    /\ pc = "off"
    /\ player_idx = 0
    /\ game_ended = FALSE
    /\ correct_guess = NoText
    /\ player_response = NoText
    /\ fg_idx = 0
    /\ invocations = 0
    /\ play_round_calls = 0
    /\ prompt_history = <<>>
    /\ calls = <<>>
    /\ response = <<>>
    /\ normalized = NoText
    /\ judged = NoText
    /\ npc = "off"
    /\ puzzle_data = PuzzleKeys

InitCov ==
    /\ GameAtRest
    /\ key_questions \in KeyQuestionLists
    /\ evaluation = EmptyDict
    /\ coverage_results = EmptyDict
    /\ eval_idx = 0
    /\ eval_calls = <<>>
    /\ eval_script = <<>>
    /\ rubric = <<>>
    /\ scores = NoScores
    /\ eval_returned = EmptyDict
    /\ epc = "coverage"

\* evaluate_question_coverage: the judgment request for one key question
CoverageJudgment ==
    /\ epc = "coverage"
    /\ eval_idx < Len(key_questions)
    /\ \E r \in CoverageResponses :
         LET key_q == key_questions[eval_idx + 1]
         IN  /\ coverage_results' = CoverageStep(coverage_results, key_q, r)
             /\ eval_calls' = Append(eval_calls,
                                     [op |-> "coverage", arg |-> key_q, response |-> r])
    /\ eval_idx' = eval_idx + 1
    /\ UNCHANGED <<game_vars, norm_vars, puzzle_data, key_questions, evaluation,
                   eval_script, rubric, scores, eval_returned, epc>>

\* evaluate_question_coverage: the counts and the return
CoverageReturn ==
    /\ epc = "coverage"
    /\ eval_idx = Len(key_questions)
    /\ eval_returned' = CoverageSummary(coverage_results, key_questions)
    /\ epc' = "coverage_done"
    /\ UNCHANGED <<game_vars, norm_vars, puzzle_data, key_questions, evaluation,
                   coverage_results, eval_idx, eval_calls, eval_script, rubric, scores>>

NextCov ==
    \/ CoverageJudgment
    \/ CoverageReturn

SpecCov == InitCov /\ [][NextCov]_vars

\* The key questions, by position, whose judgment response starts with the
\* affirmative marker after trimming
CoveredPositions ==
    {i \in 1..Len(eval_calls) :
        LET t == Strip(eval_calls[i].response)
        IN  Len(t) >= 1 /\ t[1] = "shi"}

(* C16: evaluate_question_coverage issues one judgment request per key      *)
(* question, and its coverage rate is the number of key questions of the     *)
(* sequence whose response, trimmed, starts with the affirmative marker,     *)
(* divided by the number of key questions; 0 with no key question, and       *)
(* always in [0,1].                                                          *)
C16_CoverageRate ==
    epc = "coverage_done" =>
        /\ Len(eval_calls) = Len(key_questions)
        /\ \A i \in 1..Len(key_questions) : eval_calls[i].arg = key_questions[i]
        /\ IF Len(key_questions) = 0
           THEN eval_returned.coverage_rate.num = 0
           ELSE FracEq(eval_returned.coverage_rate,
                       Frac(Cardinality(CoveredPositions), Len(key_questions)))
        /\ FracInUnit(eval_returned.coverage_rate)

----------------------------------------------------------------------------
(* GameEvaluator._parse_scores and evaluate_final_guess *)

\* The keys of the scores dict, in the order of the patterns dict
Fields == <<"core_plot", "key_details", "logical_reasoning", "completeness", "total">>

FieldNames == {Fields[i] : i \in 1..Len(Fields)}

\* patterns: the literal text each pattern starts with
Label(f) ==
    CASE f = "core_plot" -> <<"he", "xin", "qing", "jie2">>
      [] f = "key_details" -> <<"guan", "jian", "xi", "jie2">>
      [] f = "logical_reasoning" -> <<"luo", "ji", "tui", "li">>
      [] f = "completeness" -> <<"zheng", "ti3", "wan", "zheng", "du">>
      [] f = "total" -> <<"zong", "ti3", "ping", "fen">>

\* patterns: the literal text each pattern ends with
Suffix(f) ==
    IF f = "total" THEN <<"/", "1", "0", "0">> ELSE <<"/", "1", "0">>

\* patterns: the character class after the label
Colons == {"colon", ":"}

\* The decimal digits of every script, one row per script, in the order of
\* their values: the characters \d matches and int() converts
DigitRows ==
    << <<"0", "1", "2", "3", "4", "5", "6", "7", "8", "9">>,
       <<"U+0660", "U+0661", "U+0662", "U+0663", "U+0664", "U+0665", "U+0666", "U+0667", "U+0668", "U+0669">>,
       <<"U+06F0", "U+06F1", "U+06F2", "U+06F3", "U+06F4", "U+06F5", "U+06F6", "U+06F7", "U+06F8", "U+06F9">>,
       <<"U+07C0", "U+07C1", "U+07C2", "U+07C3", "U+07C4", "U+07C5", "U+07C6", "U+07C7", "U+07C8", "U+07C9">>,
       <<"U+0966", "U+0967", "U+0968", "U+0969", "U+096A", "U+096B", "U+096C", "U+096D", "U+096E", "U+096F">>,
       <<"U+09E6", "U+09E7", "U+09E8", "U+09E9", "U+09EA", "U+09EB", "U+09EC", "U+09ED", "U+09EE", "U+09EF">>,
       <<"U+0A66", "U+0A67", "U+0A68", "U+0A69", "U+0A6A", "U+0A6B", "U+0A6C", "U+0A6D", "U+0A6E", "U+0A6F">>,
       <<"U+0AE6", "U+0AE7", "U+0AE8", "U+0AE9", "U+0AEA", "U+0AEB", "U+0AEC", "U+0AED", "U+0AEE", "U+0AEF">>,
       <<"U+0B66", "U+0B67", "U+0B68", "U+0B69", "U+0B6A", "U+0B6B", "U+0B6C", "U+0B6D", "U+0B6E", "U+0B6F">>,
       <<"U+0BE6", "U+0BE7", "U+0BE8", "U+0BE9", "U+0BEA", "U+0BEB", "U+0BEC", "U+0BED", "U+0BEE", "U+0BEF">>,
       <<"U+0C66", "U+0C67", "U+0C68", "U+0C69", "U+0C6A", "U+0C6B", "U+0C6C", "U+0C6D", "U+0C6E", "U+0C6F">>,
       <<"U+0CE6", "U+0CE7", "U+0CE8", "U+0CE9", "U+0CEA", "U+0CEB", "U+0CEC", "U+0CED", "U+0CEE", "U+0CEF">>,
       <<"U+0D66", "U+0D67", "U+0D68", "U+0D69", "U+0D6A", "U+0D6B", "U+0D6C", "U+0D6D", "U+0D6E", "U+0D6F">>,
       <<"U+0DE6", "U+0DE7", "U+0DE8", "U+0DE9", "U+0DEA", "U+0DEB", "U+0DEC", "U+0DED", "U+0DEE", "U+0DEF">>,
       <<"U+0E50", "U+0E51", "U+0E52", "U+0E53", "U+0E54", "U+0E55", "U+0E56", "U+0E57", "U+0E58", "U+0E59">>,
       <<"U+0ED0", "U+0ED1", "U+0ED2", "U+0ED3", "U+0ED4", "U+0ED5", "U+0ED6", "U+0ED7", "U+0ED8", "U+0ED9">>,
       <<"U+0F20", "U+0F21", "U+0F22", "U+0F23", "U+0F24", "U+0F25", "U+0F26", "U+0F27", "U+0F28", "U+0F29">>,
       <<"U+1040", "U+1041", "U+1042", "U+1043", "U+1044", "U+1045", "U+1046", "U+1047", "U+1048", "U+1049">>,
       <<"U+1090", "U+1091", "U+1092", "U+1093", "U+1094", "U+1095", "U+1096", "U+1097", "U+1098", "U+1099">>,
       <<"U+17E0", "U+17E1", "U+17E2", "U+17E3", "U+17E4", "U+17E5", "U+17E6", "U+17E7", "U+17E8", "U+17E9">>,
       <<"U+1810", "U+1811", "U+1812", "U+1813", "U+1814", "U+1815", "U+1816", "U+1817", "U+1818", "U+1819">>,
       <<"U+1946", "U+1947", "U+1948", "U+1949", "U+194A", "U+194B", "U+194C", "U+194D", "U+194E", "U+194F">>,
       <<"U+19D0", "U+19D1", "U+19D2", "U+19D3", "U+19D4", "U+19D5", "U+19D6", "U+19D7", "U+19D8", "U+19D9">>,
       <<"U+1A80", "U+1A81", "U+1A82", "U+1A83", "U+1A84", "U+1A85", "U+1A86", "U+1A87", "U+1A88", "U+1A89">>,
       <<"U+1A90", "U+1A91", "U+1A92", "U+1A93", "U+1A94", "U+1A95", "U+1A96", "U+1A97", "U+1A98", "U+1A99">>,
       <<"U+1B50", "U+1B51", "U+1B52", "U+1B53", "U+1B54", "U+1B55", "U+1B56", "U+1B57", "U+1B58", "U+1B59">>,
       <<"U+1BB0", "U+1BB1", "U+1BB2", "U+1BB3", "U+1BB4", "U+1BB5", "U+1BB6", "U+1BB7", "U+1BB8", "U+1BB9">>,
       <<"U+1C40", "U+1C41", "U+1C42", "U+1C43", "U+1C44", "U+1C45", "U+1C46", "U+1C47", "U+1C48", "U+1C49">>,
       <<"U+1C50", "U+1C51", "U+1C52", "U+1C53", "U+1C54", "U+1C55", "U+1C56", "U+1C57", "U+1C58", "U+1C59">>,
       <<"U+A620", "U+A621", "U+A622", "U+A623", "U+A624", "U+A625", "U+A626", "U+A627", "U+A628", "U+A629">>,
       <<"U+A8D0", "U+A8D1", "U+A8D2", "U+A8D3", "U+A8D4", "U+A8D5", "U+A8D6", "U+A8D7", "U+A8D8", "U+A8D9">>,
       <<"U+A900", "U+A901", "U+A902", "U+A903", "U+A904", "U+A905", "U+A906", "U+A907", "U+A908", "U+A909">>,
       <<"U+A9D0", "U+A9D1", "U+A9D2", "U+A9D3", "U+A9D4", "U+A9D5", "U+A9D6", "U+A9D7", "U+A9D8", "U+A9D9">>,
       <<"U+A9F0", "U+A9F1", "U+A9F2", "U+A9F3", "U+A9F4", "U+A9F5", "U+A9F6", "U+A9F7", "U+A9F8", "U+A9F9">>,
       <<"U+AA50", "U+AA51", "U+AA52", "U+AA53", "U+AA54", "U+AA55", "U+AA56", "U+AA57", "U+AA58", "U+AA59">>,
       <<"U+ABF0", "U+ABF1", "U+ABF2", "U+ABF3", "U+ABF4", "U+ABF5", "U+ABF6", "U+ABF7", "U+ABF8", "U+ABF9">>,
       <<"U+FF10", "U+FF11", "U+FF12", "U+FF13", "U+FF14", "U+FF15", "U+FF16", "U+FF17", "U+FF18", "U+FF19">>,
       <<"U+104A0", "U+104A1", "U+104A2", "U+104A3", "U+104A4", "U+104A5", "U+104A6", "U+104A7", "U+104A8", "U+104A9">>,
       <<"U+10D30", "U+10D31", "U+10D32", "U+10D33", "U+10D34", "U+10D35", "U+10D36", "U+10D37", "U+10D38", "U+10D39">>,
       <<"U+11066", "U+11067", "U+11068", "U+11069", "U+1106A", "U+1106B", "U+1106C", "U+1106D", "U+1106E", "U+1106F">>,
       <<"U+110F0", "U+110F1", "U+110F2", "U+110F3", "U+110F4", "U+110F5", "U+110F6", "U+110F7", "U+110F8", "U+110F9">>,
       <<"U+11136", "U+11137", "U+11138", "U+11139", "U+1113A", "U+1113B", "U+1113C", "U+1113D", "U+1113E", "U+1113F">>,
       <<"U+111D0", "U+111D1", "U+111D2", "U+111D3", "U+111D4", "U+111D5", "U+111D6", "U+111D7", "U+111D8", "U+111D9">>,
       <<"U+112F0", "U+112F1", "U+112F2", "U+112F3", "U+112F4", "U+112F5", "U+112F6", "U+112F7", "U+112F8", "U+112F9">>,
       <<"U+11450", "U+11451", "U+11452", "U+11453", "U+11454", "U+11455", "U+11456", "U+11457", "U+11458", "U+11459">>,
       <<"U+114D0", "U+114D1", "U+114D2", "U+114D3", "U+114D4", "U+114D5", "U+114D6", "U+114D7", "U+114D8", "U+114D9">>,
       <<"U+11650", "U+11651", "U+11652", "U+11653", "U+11654", "U+11655", "U+11656", "U+11657", "U+11658", "U+11659">>,
       <<"U+116C0", "U+116C1", "U+116C2", "U+116C3", "U+116C4", "U+116C5", "U+116C6", "U+116C7", "U+116C8", "U+116C9">>,
       <<"U+11730", "U+11731", "U+11732", "U+11733", "U+11734", "U+11735", "U+11736", "U+11737", "U+11738", "U+11739">>,
       <<"U+118E0", "U+118E1", "U+118E2", "U+118E3", "U+118E4", "U+118E5", "U+118E6", "U+118E7", "U+118E8", "U+118E9">>,
       <<"U+11950", "U+11951", "U+11952", "U+11953", "U+11954", "U+11955", "U+11956", "U+11957", "U+11958", "U+11959">>,
       <<"U+11C50", "U+11C51", "U+11C52", "U+11C53", "U+11C54", "U+11C55", "U+11C56", "U+11C57", "U+11C58", "U+11C59">>,
       <<"U+11D50", "U+11D51", "U+11D52", "U+11D53", "U+11D54", "U+11D55", "U+11D56", "U+11D57", "U+11D58", "U+11D59">>,
       <<"U+11DA0", "U+11DA1", "U+11DA2", "U+11DA3", "U+11DA4", "U+11DA5", "U+11DA6", "U+11DA7", "U+11DA8", "U+11DA9">>,
       <<"U+16A60", "U+16A61", "U+16A62", "U+16A63", "U+16A64", "U+16A65", "U+16A66", "U+16A67", "U+16A68", "U+16A69">>,
       <<"U+16AC0", "U+16AC1", "U+16AC2", "U+16AC3", "U+16AC4", "U+16AC5", "U+16AC6", "U+16AC7", "U+16AC8", "U+16AC9">>,
       <<"U+16B50", "U+16B51", "U+16B52", "U+16B53", "U+16B54", "U+16B55", "U+16B56", "U+16B57", "U+16B58", "U+16B59">>,
       <<"U+1D7CE", "U+1D7CF", "U+1D7D0", "U+1D7D1", "U+1D7D2", "U+1D7D3", "U+1D7D4", "U+1D7D5", "U+1D7D6", "U+1D7D7">>,
       <<"U+1D7D8", "U+1D7D9", "U+1D7DA", "U+1D7DB", "U+1D7DC", "U+1D7DD", "U+1D7DE", "U+1D7DF", "U+1D7E0", "U+1D7E1">>,
       <<"U+1D7E2", "U+1D7E3", "U+1D7E4", "U+1D7E5", "U+1D7E6", "U+1D7E7", "U+1D7E8", "U+1D7E9", "U+1D7EA", "U+1D7EB">>,
       <<"U+1D7EC", "U+1D7ED", "U+1D7EE", "U+1D7EF", "U+1D7F0", "U+1D7F1", "U+1D7F2", "U+1D7F3", "U+1D7F4", "U+1D7F5">>,
       <<"U+1D7F6", "U+1D7F7", "U+1D7F8", "U+1D7F9", "U+1D7FA", "U+1D7FB", "U+1D7FC", "U+1D7FD", "U+1D7FE", "U+1D7FF">>,
       <<"U+1E140", "U+1E141", "U+1E142", "U+1E143", "U+1E144", "U+1E145", "U+1E146", "U+1E147", "U+1E148", "U+1E149">>,
       <<"U+1E2F0", "U+1E2F1", "U+1E2F2", "U+1E2F3", "U+1E2F4", "U+1E2F5", "U+1E2F6", "U+1E2F7", "U+1E2F8", "U+1E2F9">>,
       <<"U+1E950", "U+1E951", "U+1E952", "U+1E953", "U+1E954", "U+1E955", "U+1E956", "U+1E957", "U+1E958", "U+1E959">>,
       <<"U+1FBF0", "U+1FBF1", "U+1FBF2", "U+1FBF3", "U+1FBF4", "U+1FBF5", "U+1FBF6", "U+1FBF7", "U+1FBF8", "U+1FBF9">> >>

\* The ASCII digits
DigitChars == DigitRows[1]

\* \d
Digits == {DigitRows[r][i] : r \in 1..Len(DigitRows), i \in 1..10}

\* The end of the longest run of characters of S in t that starts at i: the
\* first position from i on that is past the text or holds no character of S
RunEnd(t, i, S) ==
    CHOOSE j \in i..(Len(t) + 1) :
        /\ j = Len(t) + 1 \/ t[j] \notin S
        /\ \A k \in i..(j - 1) : t[k] \in S

\* Where the digits of a match that starts at p would begin and end
GroupStart(t, p, f) == RunEnd(t, p + Len(Label(f)) + 1, Whitespace)
GroupEnd(t, p, f) == RunEnd(t, GroupStart(t, p, f), Digits)

\* The pattern of field f matches t at position p
MatchAt(t, p, f) ==
    LET c == p + Len(Label(f))
    IN  /\ c <= Len(t)
        /\ SubSeq(t, p, c - 1) = Label(f)
        /\ t[c] \in Colons
        /\ LET d0 == GroupStart(t, p, f)
               d1 == GroupEnd(t, p, f)
           IN  /\ d1 > d0
               /\ d1 + Len(Suffix(f)) - 1 <= Len(t)
               /\ SubSeq(t, d1, d1 + Len(Suffix(f)) - 1) = Suffix(f)

\* re.search(pattern, response): the leftmost match, 0 for None
Search(t, f) ==
    LET ps == {p \in 1..Len(t) : MatchAt(t, p, f)}
    IN  IF ps = {} THEN 0 ELSE CHOOSE p \in ps : \A q \in ps : p <= q

\* match.group(1) of the match that starts at p
Group(t, p, f) == SubSeq(t, GroupStart(t, p, f), GroupEnd(t, p, f) - 1)

\* sys.int_info.default_max_str_digits: int() of a longer digit string raises
INT_MAX_STR_DIGITS == 4300

\* The value of one digit, of whatever script
DigitValue(c) ==
    CHOOSE v \in 0..9 : \E r \in 1..Len(DigitRows) : DigitRows[r][v + 1] = c

RECURSIVE DigitsValue(_)
DigitsValue(ds) ==
    IF ds = <<>> THEN 0
    ELSE 10 * DigitsValue(SubSeq(ds, 1, Len(ds) - 1)) + DigitValue(ds[Len(ds)])

\* int(match.group(1)) raises ValueError
IntRaises(ds) == Len(ds) > INT_MAX_STR_DIGITS

\* _parse_scores raises: some matched field's int() raises
ParseRaises(t) ==
    \E f \in FieldNames :
        LET p == Search(t, f) IN p # 0 /\ IntRaises(Group(t, p, f))

\* _parse_scores, when no int() raises
parse_scores(t) ==
    [f \in FieldNames |->
        LET p == Search(t, f) IN IF p = 0 THEN 0 ELSE DigitsValue(Group(t, p, f))]

\* evaluate_final_guess: the returned dict
evaluate_final_guess(log, player_name, resp) ==
    [player_name |-> player_name,
     final_guess |-> IF player_name \in Keys(log.final_guesses)
                     THEN Get(log.final_guesses, player_name) ELSE <<>>,
     evaluation_response |-> resp,
     scores |-> parse_scores(resp)]

\* A digit string one longer than int() accepts
OversizedDigits == [i \in 1..(INT_MAX_STR_DIGITS + 1) |-> "9"]

\* The ways the text generator may write the line of one rubric field:
\* left out; "label(colon)digits/10 - x"; the same with an ASCII colon, an
\* ideographic space and full-width digits; the format line of the prompt
\* left unfilled; a decimal score; a score longer than int() accepts.  value
\* is the number the digits denote.
ScoreLines ==
    { [kind |-> "missing", digits |-> <<>>, value |-> 0],
      [kind |-> "scored", digits |-> <<"7">>, value |-> 7],
      [kind |-> "scored", digits |-> <<"1", "5">>, value |-> 15],
      [kind |-> "scored", digits |-> <<"2", "5", "0">>, value |-> 250],
      [kind |-> "scored_ascii", digits |-> <<"U+FF11", "U+FF10">>, value |-> 10],
      [kind |-> "unfilled", digits |-> <<"X">>, value |-> 0],
      [kind |-> "decimal", digits |-> <<"8", ".", "5">>, value |-> 0],
      [kind |-> "oversized", digits |-> OversizedDigits, value |-> 0] }

\* The rubric responses: one line choice per field; an oversized line comes
\* alone or with one-digit score lines
Rubrics ==
    {r \in [FieldNames -> ScoreLines] :
        LET oversized == {f \in FieldNames : r[f].kind = "oversized"}
        IN  \/ oversized = {}
            \/ /\ Cardinality(oversized) = 1
               /\ \A f \in FieldNames \ oversized : r[f].digits = <<"7">>}

RenderLine(f, line) ==
    IF line.kind = "missing" THEN <<>>
    ELSE Label(f)
         \o (IF line.kind = "scored_ascii" THEN <<":", "U+3000">> ELSE <<"colon">>)
         \o line.digits \o Suffix(f) \o <<" ", "-", " ", "x", "\n">>

\* The response text of a rubric: its lines in the order of the prompt's format
Render(r) ==
    RenderLine(Fields[1], r[Fields[1]]) \o RenderLine(Fields[2], r[Fields[2]])
    \o RenderLine(Fields[3], r[Fields[3]]) \o RenderLine(Fields[4], r[Fields[4]])
    \o RenderLine(Fields[5], r[Fields[5]])

InitScore ==
    /\ GameAtRest
    /\ key_questions = DefaultKeyQuestions
    /\ evaluation = EmptyDict
    /\ coverage_results = EmptyDict
    /\ eval_idx = 0
    /\ eval_calls = <<>>
    /\ rubric \in Rubrics
    /\ eval_script = <<Render(rubric)>>
    /\ scores = NoScores
    /\ eval_returned = EmptyDict
    /\ epc = "score_input"

\* evaluate_final_guess: the request, the parse and the return
EvaluateFinalGuess ==
    /\ epc = "score_input"
    /\ ~ParseRaises(eval_script[1])
    /\ eval_calls' = Append(eval_calls,
                            [op |-> "final_guess", arg |-> "A", response |-> eval_script[1]])
    /\ eval_returned' = evaluate_final_guess(game_log, "A", eval_script[1])
    /\ scores' = eval_returned'.scores
    /\ epc' = "scored"
    /\ UNCHANGED <<game_vars, norm_vars, puzzle_data, key_questions, evaluation,
                   coverage_results, eval_idx, eval_script, rubric>>

\* evaluate_final_guess: int() raises ValueError inside _parse_scores
EvaluateFinalGuessValueError ==
    /\ epc = "score_input"
    /\ ParseRaises(eval_script[1])
    /\ eval_calls' = Append(eval_calls,
                            [op |-> "final_guess", arg |-> "A", response |-> eval_script[1]])
    /\ epc' = "score_raised"
    /\ UNCHANGED <<game_vars, norm_vars, puzzle_data, key_questions, evaluation,
                   coverage_results, eval_idx, eval_script, rubric, scores,
                   eval_returned>>

NextScore ==
    \/ EvaluateFinalGuess
    \/ EvaluateFinalGuessValueError

SpecScore == InitScore /\ [][NextScore]_vars

\* The line of a field is present and well formed: it carries a whole number
LineWellFormed(line) == line.kind \in {"scored", "scored_ascii", "oversized"}

(* C17: _parse_scores matches each of the five rubric fields independently:  *)
(* a field whose line is missing or malformed gets 0 while every other field *)
(* whose line is present gets the number written on its line; parsing never  *)
(* fails for any text.                                                       *)
C17_FieldsParsedIndependently ==
    epc # "score_input" =>
        /\ epc = "scored"
        /\ \A f \in FieldNames :
             scores[f] = IF LineWellFormed(rubric[f]) THEN rubric[f].value ELSE 0

(* C18: the score breakdown produced by evaluate_final_guess has each of the *)
(* four sub-scores in [0,10] and the total in [0,100].                       *)
C18_ScoresInRange ==
    epc = "scored" =>
        /\ \A f \in FieldNames \ {"total"} :
             0 <= eval_returned.scores[f] /\ eval_returned.scores[f] <= 10
        /\ 0 <= eval_returned.scores["total"] /\ eval_returned.scores["total"] <= 100

----------------------------------------------------------------------------
(* GameEvaluator.evaluate_game_efficiency *)

\* evaluate_game_efficiency: player_stats
PlayerStats(rounds) ==
    [n \in {rounds[i].player : i \in 1..Len(rounds)} |->
        [questions |-> Cardinality({i \in 1..Len(rounds) :
                                      rounds[i].player = n /\ ~rounds[i].is_guess}),
         guesses |-> Cardinality({i \in 1..Len(rounds) :
                                    rounds[i].player = n /\ rounds[i].is_guess})]]

\* evaluate_game_efficiency: `1 - (total_rounds / max_rounds) if max_rounds > 0 else 0`
EfficiencyRate(total, mr) == IF mr > 0 THEN Frac(mr - total, mr) ELSE Frac(0, 1)

\* evaluate_game_efficiency: the returned dict
evaluate_game_efficiency(log, mr) ==
    [total_rounds |-> log.total_rounds,
     max_rounds |-> mr,
     efficiency_rate |-> EfficiencyRate(log.total_rounds, mr),
     player_stats |-> PlayerStats(log.rounds)]

\* evaluate_game_efficiency on the record run_game returned
EvaluateGameEfficiency ==
    /\ pc = "done"
    /\ epc = "off"
    /\ eval_returned' = evaluate_game_efficiency(game_log, max_rounds)
    /\ epc' = "efficiency_done"
    /\ UNCHANGED <<game_vars, norm_vars, puzzle_data, key_questions, evaluation,
                   coverage_results, eval_idx, eval_calls, eval_script, rubric, scores>>

NextEff ==
    \/ Next
    \/ EvaluateGameEfficiency

SpecEff == Init /\ [][NextEff]_vars

\* 1 - ratio, where ratio is total_rounds / max_rounds and 0 when max_rounds is 0
OneMinusRatio(total, mr) == IF mr = 0 THEN Frac(1, 1) ELSE Frac(mr - total, mr)

(* C19: evaluate_game_efficiency returns efficiency_rate = 1 - ratio where   *)
(* ratio = total_rounds / max_rounds and ratio is 0 when max_rounds is 0;    *)
(* for every record produced by run_game the rate lies in [0,1].             *)
C19_EfficiencyRate ==
    epc = "efficiency_done" =>
        /\ FracEq(eval_returned.efficiency_rate,
                  OneMinusRatio(game_log.total_rounds, max_rounds))
        /\ FracInUnit(eval_returned.efficiency_rate)

----------------------------------------------------------------------------
(* GameEvaluator.evaluate_all *)

MaxEvalRounds == 1

\* evaluate_all: `for player_name in self.game_log["final_guesses"].keys()`,
\* the keys in the order in which the dict holds them
InsertionOrder(d) == KeyOrder(d)

\* evaluate_question_coverage: the loop over the first i key questions, the
\* i-th judgment response being script[i]
RECURSIVE CoverageLoop(_, _, _)
CoverageLoop(kqs, script, i) ==
    IF i = 0 THEN EmptyDict
    ELSE CoverageStep(CoverageLoop(kqs, script, i - 1), kqs[i], script[i])

\* The calls one evaluate_all makes, in order: one judgment per key question,
\* then one rubric per key of final_guesses
EvaluateAllCalls(log, kqs, script) ==
    LET names == InsertionOrder(log.final_guesses)
    IN  [i \in 1..(Len(kqs) + Len(names)) |->
            IF i <= Len(kqs)
            THEN [op |-> "coverage", arg |-> kqs[i], response |-> script[i]]
            ELSE [op |-> "final_guess", arg |-> names[i - Len(kqs)],
                  response |-> script[i]]]

\* evaluate_all: evaluation_result
evaluate_all(log, mr, kqs, script) ==
    LET names == InsertionOrder(log.final_guesses)
        place(n) == CHOOSE j \in 1..Len(names) : names[j] = n
    IN  [coverage_evaluation |->
            CoverageSummary(CoverageLoop(kqs, script, Len(kqs)), kqs),
         player_evaluations |->
            [n \in Keys(log.final_guesses) |->
                evaluate_final_guess(log, n, script[Len(kqs) + place(n)])],
         efficiency_evaluation |-> evaluate_game_efficiency(log, mr)]

AttachAccumulating(prev, result) ==
    IF DOMAIN prev = {} THEN result
    ELSE [result EXCEPT !.coverage_evaluation.covered_count =
                            @ + prev.coverage_evaluation.covered_count]

\* evaluate_all: self.game_log["evaluation"] = evaluation_result
Attach(prev, result) == result

\* The judgment and rubric responses the text generator may return
JudgmentTexts == { <<"shi">>, <<"fou">> }
RubricTexts ==
    { Render([f \in FieldNames |->
                IF f \in {"core_plot", "total"}
                THEN [kind |-> "scored", digits |-> <<"7">>, value |-> 7]
                ELSE [kind |-> "missing", digits |-> <<>>, value |-> 0]]),
      Render([f \in FieldNames |->
                IF f = "completeness"
                THEN [kind |-> "scored_ascii", digits |-> <<"U+FF11", "U+FF10">>,
                      value |-> 10]
                ELSE [kind |-> "missing", digits |-> <<>>, value |-> 0]]) }

\* The response sequences for k judgment requests followed by n rubric
\* requests; successive rubric requests get different responses
Scripts(k, n) ==
    {s \in [1..(k + n) -> JudgmentTexts \cup RubricTexts] :
        /\ \A i \in 1..(k + n) : s[i] \in (IF i <= k THEN JudgmentTexts ELSE RubricTexts)
        /\ \A i \in (k + 1)..(k + n - 1) : s[i + 1] # s[i]}

\* The other response of the same kind
OtherText(t) ==
    IF t \in JudgmentTexts THEN CHOOSE u \in JudgmentTexts : u # t
    ELSE CHOOSE u \in RubricTexts : u # t

\* The scripts a second evaluate_all is run with: the same responses, or the
\* other response to every request
SecondScripts(script) ==
    { script, [i \in 1..Len(script) |-> OtherText(script[i])] }

InitEvalAll ==
    /\ Init
    /\ max_rounds \in 0..MaxEvalRounds

\* The first evaluate_all on the record run_game returned
EvaluateAll ==
    /\ pc = "done"
    /\ epc = "off"
    /\ \E script \in Scripts(Len(key_questions), Len(game_log.final_guesses)) :
         /\ eval_script' = script
         /\ eval_returned' = evaluate_all(game_log, max_rounds, key_questions, script)
         /\ eval_calls' = eval_calls
                          \o EvaluateAllCalls(game_log, key_questions, script)
    /\ evaluation' = Attach(evaluation, eval_returned')
    /\ epc' = "evaluated"
    /\ UNCHANGED <<game_vars, norm_vars, puzzle_data, key_questions, coverage_results,
                   eval_idx, rubric, scores>>

\* evaluate_all invoked again on the same record
EvaluateAllAgain ==
    /\ pc = "done"
    /\ epc = "evaluated"
    /\ \E script \in SecondScripts(eval_script) :
         /\ eval_script' = script
         /\ eval_returned' = evaluate_all(game_log, max_rounds, key_questions, script)
         /\ eval_calls' = eval_calls
                          \o EvaluateAllCalls(game_log, key_questions, script)
    /\ evaluation' = Attach(evaluation, eval_returned')
    /\ epc' = "evaluated_again"
    /\ UNCHANGED <<game_vars, norm_vars, puzzle_data, key_questions, coverage_results,
                   eval_idx, rubric, scores>>

NextEvalAll ==
    \/ Next
    \/ EvaluateAll
    \/ EvaluateAllAgain

SpecEvalAll == InitEvalAll /\ [][NextEvalAll]_vars

EvaluationKeys == {"coverage_evaluation", "player_evaluations", "efficiency_evaluation"}

(* C20: invoking evaluate_all again on the same finished record replaces the *)
(* attached evaluation (no accumulation, no merge), leaves rounds,           *)
(* final_guesses, winner and total_rounds unchanged, and with the same       *)
(* responses yields an attached result equal to the first one.               *)
C20_EvaluateAllIdempotent ==
    [][epc = "evaluated" /\ epc' = "evaluated_again" =>
          /\ game_log' = game_log
          /\ evaluation' = eval_returned'
          /\ DOMAIN evaluation' = EvaluationKeys
          /\ DOMAIN evaluation'.player_evaluations = Keys(game_log.final_guesses)
          /\ evaluation'.coverage_evaluation.covered_count
                <= evaluation'.coverage_evaluation.total_key_questions
          /\ eval_script' = eval_script => evaluation' = evaluation]_vars

C20_Witness ==
    /\ epc = "evaluated_again"
    /\ Len(eval_calls) = 8
    /\ SubSeq(eval_calls, 1, 4) = SubSeq(eval_calls, 5, 8)
    /\ evaluation.coverage_evaluation.covered_count = 1
    /\ game_log.winner = None
    /\ evaluation.player_evaluations["B"].scores["total"] = 7

----------------------------------------------------------------------------
(* run_game invoked again on the same TurtleSoupGame *)

MaxReruns == 1

\* run_game: entry, on a game whose run_game has returned; the locals are
\* fresh, self.current_round, self.conversation_history and self.game_log are
\* the ones the earlier invocation left
RunGameAgain ==
    /\ pc = "done"
    /\ invocations < MaxReruns
    /\ invocations' = invocations + 1
    /\ player_idx' = 0
    /\ game_ended' = FALSE
    /\ correct_guess' = NoText
    /\ fg_idx' = 0
    /\ pc' = "loop"
    /\ UNCHANGED <<max_rounds, players, conversation_history, current_round, game_log,
                   player_response, calls, prompt_history, norm_vars, eval_vars, play_round_calls>>

NextRerun ==
    \/ Next
    \/ RunGameAgain

SpecRerun == Init /\ [][NextRerun]_vars

\* The game has ended: run_game has set total_rounds
Ended == "total_rounds" \in DOMAIN game_log

(* C21: once a game has ended (winner found or rounds exhausted) the state is *)
(* absorbing: no further operation, run_game invoked again included, appends  *)
(* another round, and rounds, winner and total_rounds stay as they were.      *)
C21_EndedIsAbsorbing ==
    [][Ended =>
          /\ game_log'.rounds = game_log.rounds
          /\ game_log'.winner = game_log.winner
          /\ game_log'.total_rounds = game_log.total_rounds
          /\ current_round' = current_round]_vars

----------------------------------------------------------------------------
(* play_round invoked by a caller of the TurtleSoupGame, outside run_game *)

MaxCallRounds == 1
MaxExtraCalls == 1

\* A caller makes at most MaxExtraCalls calls besides the first run_game
CallBudget == invocations + play_round_calls < MaxExtraCalls

\* The player_idx arguments of a call: the valid ones, negative ones included,
\* and one past each end
DirectIndices(n) == (-n - 1)..n

\* self.players[player_idx] does not raise IndexError
IndexOk(ps, idx) == -Len(ps) <= idx /\ idx < Len(ps)

\* The list position, from 1, of self.players[player_idx]
PositionOf(ps, idx) == IF idx < 0 THEN idx + Len(ps) + 1 ELSE idx + 1

\* The texts model_api_call returns to the calls of a play_round invoked by a
\* caller: a question, a guess; an affirmative and a negative answer
DirectUtterances == { TAG_QUESTION \o <<"x">>, TAG_GUESS \o <<"x">> }
DirectHostResponses == { <<"shi">>, <<"fou">> }

\* The states in which no method of the game is running
AtRest == pc \in {"constructed", "done", "raised"}

\* play_round(idx), both calls returning: the whole method
PlayRound ==
    /\ AtRest
    /\ CallBudget
    /\ \E idx \in DirectIndices(Len(players)), u \in DirectUtterances,
          r \in DirectHostResponses :
         /\ IndexOk(players, idx)
         /\ LET player == players[PositionOf(players, idx)]
                guess == is_guess(u)
                host_answer == IF guess THEN evaluate_guess(r) ELSE answer_question(r)
                round_info == [round |-> RoundIndex(current_round),
                               player |-> player.name,
                               question |-> u,
                               answer |-> host_answer,
                               is_guess |-> guess,
                               guess_correct |-> IF guess THEN guess_correct(host_answer)
                                                 ELSE FALSE]
            IN  /\ conversation_history' = AppendHistory(conversation_history, round_info)
                /\ game_log' = [game_log EXCEPT !.rounds = Append(@, round_info)]
                /\ calls' = calls \o <<Call("ask_question", PositionOf(players, idx)),
                                        HostCall(IF guess THEN "evaluate_guess"
                                                 ELSE "answer_question",
                                                 round_info.round)>>
    /\ current_round' = current_round + 1
    /\ prompt_history' = conversation_history
    /\ play_round_calls' = play_round_calls + 1
    /\ UNCHANGED <<max_rounds, players, pc, player_idx, game_ended, correct_guess,
                   player_response, fg_idx, invocations, norm_vars, eval_vars>>

\* play_round(idx): self.players[player_idx] raises IndexError
PlayRoundIndexRaises ==
    /\ AtRest
    /\ CallBudget
    /\ \E idx \in DirectIndices(Len(players)) : ~IndexOk(players, idx)
    /\ play_round_calls' = play_round_calls + 1
    /\ UNCHANGED <<max_rounds, players, conversation_history, current_round, game_log,
                   pc, player_idx, game_ended, correct_guess, player_response, fg_idx,
                   calls, invocations, prompt_history, norm_vars, eval_vars>>

\* play_round(idx): model_api_call raises inside player.ask_question
PlayRoundPlayerFails ==
    /\ AtRest
    /\ CallBudget
    /\ \E idx \in DirectIndices(Len(players)) :
         /\ IndexOk(players, idx)
         /\ calls' = Append(calls, Call("ask_question", PositionOf(players, idx)))
    /\ prompt_history' = conversation_history
    /\ play_round_calls' = play_round_calls + 1
    /\ UNCHANGED <<max_rounds, players, conversation_history, current_round, game_log,
                   pc, player_idx, game_ended, correct_guess, player_response, fg_idx,
                   invocations, norm_vars, eval_vars>>

\* play_round(idx): model_api_call raises inside the host's call
PlayRoundHostFails ==
    /\ AtRest
    /\ CallBudget
    /\ \E idx \in DirectIndices(Len(players)), u \in DirectUtterances :
         /\ IndexOk(players, idx)
         /\ calls' = calls \o <<Call("ask_question", PositionOf(players, idx)),
                                 Call(IF is_guess(u) THEN "evaluate_guess"
                                      ELSE "answer_question", 0)>>
    /\ prompt_history' = conversation_history
    /\ play_round_calls' = play_round_calls + 1
    /\ UNCHANGED <<max_rounds, players, conversation_history, current_round, game_log,
                   pc, player_idx, game_ended, correct_guess, player_response, fg_idx,
                   invocations, norm_vars, eval_vars>>

\* The methods of a TurtleSoupGame a caller may invoke, in any order: run_game,
\* run_game again, play_round
NextCalls ==
    \/ Next
    \/ RunGameAgain /\ CallBudget
    \/ PlayRound
    \/ PlayRoundIndexRaises
    \/ PlayRoundPlayerFails
    \/ PlayRoundHostFails

\* The participant lists of PlayerConfigs with at most two participants
CallPlayerConfigs == {ps \in PlayerConfigs : Len(ps) <= 2}

InitCalls ==
    /\ Init
    /\ max_rounds \in (-1)..MaxCallRounds
    /\ players \in CallPlayerConfigs

SpecCalls == InitCalls /\ [][NextCalls]_vars

----------------------------------------------------------------------------
(* The rounds of the record and the shared conversation history *)

(* C22: the recorded rounds carry contiguous indices starting at 1: the i-th *)
(* element of rounds has round = i, and the index given to a new round is    *)
(* the previous number of completed rounds plus 1.                           *)
C22_RoundIndicesContiguous ==
    /\ [](\A i \in 1..Len(Rounds) : Rounds[i].round = i)
    /\ [][Len(game_log'.rounds) = Len(Rounds) + 1 =>
             /\ game_log'.rounds[Len(Rounds) + 1].round = current_round + 1
             /\ current_round = Len(Rounds)]_vars

\* Round 1 recorded by run_game, round 2 by a play_round the caller invoked
\* after run_game had returned
C22_Witness ==
    /\ pc = "done"
    /\ play_round_calls = 1
    /\ game_log.total_rounds = 1
    /\ Len(Rounds) = 2
    /\ Rounds[1].round = 1
    /\ Rounds[2].round = 2

(* C23: between rounds the length of the conversation history equals the     *)
(* length of the record's rounds and the round counter, and the two          *)
(* sequences hold the same rounds in the same order.                         *)
C23_HistoryMirrorsRounds ==
    /\ Len(conversation_history) = Len(Rounds)
    /\ Len(Rounds) = current_round
    /\ conversation_history = Rounds

\* A rejected guess recorded by run_game, then a question recorded by a
\* play_round the caller invoked
C23_Witness ==
    /\ pc = "done"
    /\ play_round_calls = 1
    /\ current_round = 2
    /\ Len(conversation_history) = 2
    /\ conversation_history[1].is_guess
    /\ ~conversation_history[2].is_guess

(* C24: a recorded guess round has verdict affirmative or negative, a         *)
(* question round has affirmative, negative or irrelevant, and guess_correct  *)
(* is true exactly when the round is a guess with verdict affirmative.        *)
C24_VerdictsWellFormed ==
    \A i \in 1..Len(Rounds) :
        /\ Rounds[i].is_guess => Rounds[i].answer \in {ANS_YES, ANS_NO}
        /\ ~Rounds[i].is_guess => Rounds[i].answer \in {ANS_YES, ANS_NO, ANS_IRRELEVANT}
        /\ Rounds[i].guess_correct <=> (Rounds[i].is_guess /\ Rounds[i].answer = ANS_YES)

\* A question answered irrelevant in run_game, then a guess judged
\* affirmative in a play_round the caller invoked
C24_Witness ==
    /\ Len(Rounds) = 2
    /\ play_round_calls = 1
    /\ pc = "done"
    /\ ~Rounds[1].is_guess /\ Rounds[1].answer = ANS_IRRELEVANT
    /\ Rounds[2].is_guess /\ Rounds[2].answer = ANS_YES /\ Rounds[2].guess_correct

IsPrefix(s, t) == Len(s) <= Len(t) /\ SubSeq(t, 1, Len(s)) = s

\* A step in which a player's ask_question call is made
AskQuestionStep ==
    \E i \in (Len(calls) + 1)..Len(calls') : calls'[i].op = "ask_question"

----------------------------------------------------------------------------
(* Classification of utterances, per-player tallies and the number of calls *)

HasGuessMarker(u) == Contains(u, TAG_GUESS) \/ Contains(u, TAG_FINAL_GUESS)

\* The utterance is addressed as a question by a leading question tag
HasLeadingQuestionTag(u) == StartsWith(Strip(u), TAG_QUESTION)

\* The host operation the utterance of the i-th recorded round was sent to:
\* the method whose call returned the round's answer
HostCallOf(i) ==
    calls[CHOOSE j \in 1..Len(calls) : calls[j].round = Rounds[i].round].op

(* C26: an utterance carrying no guess marker is recorded as a question and  *)
(* sent to answer_question, an utterance addressed as a question by a leading *)
(* question tag is recorded as a question, and only an utterance addressed as *)
(* a guess by its marker is recorded as a guess and sent to evaluate_guess.   *)
C26_ClassifiedByLeadingTag ==
    \A i \in 1..Len(Rounds) :
        LET u == Rounds[i].question
        IN  /\ ~HasGuessMarker(u) =>
                 (~Rounds[i].is_guess /\ HostCallOf(i) = "answer_question")
            /\ HasLeadingQuestionTag(u) =>
                 (~Rounds[i].is_guess /\ HostCallOf(i) = "answer_question")
            /\ Rounds[i].is_guess =>
                 (HasGuessMarker(u) /\ HostCallOf(i) = "evaluate_guess")

RECURSIVE SumOfTallies(_, _)
SumOfTallies(stats, names) ==
    IF names = {} THEN 0
    ELSE LET n == CHOOSE x \in names : TRUE
         IN  stats[n].questions + stats[n].guesses + SumOfTallies(stats, names \ {n})

\* The names of the record's participant list
ParticipantNames == {players[i].name : i \in 1..Len(players)}

(* C29: evaluate_game_efficiency reports, for every participant of the       *)
(* record's participant list, its number of question rounds and of guess     *)
(* rounds tallied from rounds (0 and 0 for one that never acted), and these  *)
(* counts sum to total_rounds.                                               *)
C29_TalliesForEveryParticipant ==
    epc = "efficiency_done" =>
        LET stats == eval_returned.player_stats
        IN  /\ \A n \in ParticipantNames :
                 /\ n \in DOMAIN stats
                 /\ stats[n].questions =
                        Cardinality({i \in 1..Len(Rounds) :
                                       Rounds[i].player = n /\ ~Rounds[i].is_guess})
                 /\ stats[n].guesses =
                        Cardinality({i \in 1..Len(Rounds) :
                                       Rounds[i].player = n /\ Rounds[i].is_guess})
            /\ SumOfTallies(stats, DOMAIN stats) = game_log.total_rounds

(* C30: each round issues exactly two calls in sequence, the player's then   *)
(* the host's, so a run that completes makes 2 * total_rounds calls when it  *)
(* ends with a winner found and 2 * total_rounds + n calls (n participants)  *)
(* when it ends with the rounds exhausted.                                   *)
C30_CallsPerRun ==
    /\ \A i \in 1..Len(Rounds) :
         /\ calls[2 * i - 1].op = "ask_question"
         /\ calls[2 * i].op \in {"answer_question", "evaluate_guess"}
    /\ Returned =>
         Len(calls) = IF WinningRounds # {} THEN 2 * game_log.total_rounds
                      ELSE 2 * game_log.total_rounds + NumPlayers

----------------------------------------------------------------------------
(* run_game when every call to the text generator returns a text *)

\* The steps of run_game in which no call raises
NextReturns ==
    \/ RunGameBegin
    \/ PlayRoundIndexError
    \/ PlayerTurn
    \/ HostTurn
    \/ LoopExit
    \/ FinalGuessTurn
    \/ Finish

\* run_game is invoked and runs on one thread: an enabled step is taken
SpecReturns == Init /\ [][NextReturns]_vars /\ WF_vars(NextReturns)

PositiveGame == max_rounds >= 1 /\ NumPlayers >= 1

(* C27: for positive max_rounds and n >= 1 participants, if every call       *)
(* returns some text, however malformed, run_game eventually terminates with  *)
(* a winner found or the rounds exhausted, after at most max_rounds rounds,   *)
(* and returns a record with end_time and total_rounds set; it never raises.  *)
C27_RunCompletes ==
    /\ [](PositiveGame => (pc # "raised" /\ Len(Rounds) <= max_rounds))
    /\ PositiveGame ~>
         /\ Returned
         /\ "end_time" \in DOMAIN game_log
         /\ game_log.total_rounds = Len(Rounds)
         /\ game_log.total_rounds <= max_rounds
         /\ WinningRounds # {} \/ game_log.total_rounds = max_rounds

C27_Witness ==
    /\ Returned
    /\ max_rounds = 3
    /\ NumPlayers = 2
    /\ players[1].name = "A"
    /\ game_log.total_rounds = 3
    /\ Rounds[1].question = <<"x">> /\ Rounds[1].answer = ANS_IRRELEVANT
    /\ Rounds[2].is_guess /\ Rounds[2].answer = ANS_NO
    /\ FinalGuesses["A"] = <<"y">>

----------------------------------------------------------------------------
(* A round whose call fails *)

(* C31: a round is atomic with respect to a failing call: if the player's or *)
(* the host's call of a round fails, the conversation history, the rounds,   *)
(* the round counter and the winner are exactly as they were before the      *)
(* round began, and the aborted run never sets end_time or total_rounds.     *)
C31_FailedRoundLeavesNoTrace ==
    /\ [][(pc \in {"loop", "host"} /\ pc' \in {"host", "raised"}) =>
             /\ conversation_history' = conversation_history
             /\ game_log'.rounds = game_log.rounds
             /\ game_log'.winner = game_log.winner
             /\ current_round' = current_round]_vars
    /\ [](pc = "raised" =>
             /\ "end_time" \notin DOMAIN game_log
             /\ "total_rounds" \notin DOMAIN game_log
             /\ conversation_history = Rounds
             /\ Len(Rounds) = current_round)

C31_Witness ==
    /\ pc = "raised"
    /\ max_rounds = 3
    /\ Len(calls) = 4
    /\ calls[4].op = "answer_question"
    /\ player_response # NoText
    /\ current_round = 1
    /\ conversation_history = Rounds
    /\ Rounds[1].is_guess
    /\ game_log.winner = None

====
